---- MODULE Spec2Model ----
(***************************************************************************)
(* Model of src/rpclient/blockstream-esplora.ts: the Blockstream Esplora   *)
(* client (BlockstreamEsploraClient) and the Provider facade that routes   *)
(* multiCall batches and PSBT broadcasts between Sandshrew (the primary    *)
(* backend) and Blockstream Esplora (the secondary backend).               *)
(*                                                                         *)
(* Every async method is a call frame call[t] that moves from one await to *)
(* the next; the code between two awaits is one step.  Backend replies are *)
(* inputs, constrained by the health of the backend.                       *)
(***************************************************************************)
EXTENDS Integers, Sequences, FiniteSets, TLC

\* Longest batch passed to multiCall.
MaxBatch == 2

\* Call frames; Spec runs the frames of SeqTasks.
Tasks == {1, 2}
SeqTasks == {1}

Undefined == "undefined"
Null == "null"

NetworkTypes == {"mainnet", "testnet", "signet", "regtest"}

\* Health of a backend: "up" answers every request, "down" fails every
\* request, "flaky" may do either.
BsHealths == {"down", "flaky"}
PrimaryHealths == {"up", "flaky"}

CanSucceed(h) == h \in {"up", "flaky"}
CanFail(h) == h \in {"down", "flaky"}

----------------------------------------------------------------------------
(* BlockstreamEsploraClient.constructor *)

BlockstreamEsploraClientCtorAcceptsRegtest(nt) ==
  IF nt = "mainnet" THEN [ok |-> TRUE, baseUrl |-> "https://blockstream.info/api"]
  ELSE IF nt = "testnet" THEN [ok |-> TRUE, baseUrl |-> "https://blockstream.info/testnet/api"]
  ELSE IF nt = "signet" THEN [ok |-> TRUE, baseUrl |-> "https://mempool.space/signet/api"]
  ELSE [ok |-> TRUE, baseUrl |-> "https://blockstream.info/api"]

\* The base URL of the network type, or the throw of the else branch.
BlockstreamEsploraClientCtor(nt) ==
  IF nt = "mainnet" THEN [ok |-> TRUE, baseUrl |-> "https://blockstream.info/api"]
  ELSE IF nt = "testnet" THEN [ok |-> TRUE, baseUrl |-> "https://blockstream.info/testnet/api"]
  ELSE IF nt = "signet" THEN [ok |-> TRUE, baseUrl |-> "https://mempool.space/signet/api"]
  ELSE [ok |-> FALSE, baseUrl |-> Undefined]

(* Provider.constructor *)

UseBlockstreamFallbackFlagOnly(fallbackToBlockstream, nt) ==
  fallbackToBlockstream

\* this.useBlockstreamFallback = fallbackToBlockstream || networkType === 'signet'
UseBlockstreamFallback(fallbackToBlockstream, nt) ==
  fallbackToBlockstream \/ nt = "signet"

\* The guard of the block that initialises the Blockstream client.
InitBlockstream(useFallback, nt) ==
  useFallback \/ nt \in {"signet", "testnet", "mainnet"}

TryBlockstreamNoCatch(nt) ==
  LET bs == BlockstreamEsploraClientCtor(nt)
  IN IF bs.ok THEN [threw |-> FALSE, client |-> bs.baseUrl]
     ELSE [threw |-> TRUE, client |-> Undefined]

\* try { this.blockstreamEsplora = new BlockstreamEsploraClient(...) }
\* catch (error) { console.warn(...) }: the throw is caught and the field
\* is left unset.
TryBlockstream(nt) ==
  LET bs == BlockstreamEsploraClientCtor(nt)
  IN IF bs.ok THEN [threw |-> FALSE, client |-> bs.baseUrl]
     ELSE [threw |-> FALSE, client |-> Undefined]

\* The fields the constructor leaves behind; raised is TRUE when the
\* constructor throws.
ProviderCtor(nt, fallbackToBlockstream) ==
  LET useFallback == UseBlockstreamFallback(fallbackToBlockstream, nt)
      r == IF InitBlockstream(useFallback, nt) THEN TryBlockstream(nt)
           ELSE [threw |-> FALSE, client |-> Undefined]
  IN [raised |-> r.threw,
      networkType |-> nt,
      useBlockstreamFallback |-> useFallback,
      blockstreamEsplora |-> r.client,
      sandshrew |-> TRUE]

----------------------------------------------------------------------------
(* Logical calls *)

Methods == {"esplora_address::utxo", "btc_getblockcount", "ord_output",
            "esplora_tx", "alkanes_protorunesbyoutpoint", "unknown_method"}

\* An entry of the calls array.  pair is FALSE for an entry that is not a
\* [method, params] pair (it cannot be destructured); params is "bad" when
\* the parameters cannot be destructured or split.
Entries ==
  [pair : {TRUE}, method : Methods, params : {"good"}]
    \cup [pair : {TRUE}, method : {"esplora_address::utxo", "ord_output"}, params : {"bad"}]
    \cup [pair : {FALSE}, method : {Undefined}, params : {Undefined}]

RECURSIVE SeqsUpTo(_, _)
SeqsUpTo(S, n) ==
  IF n = 0 THEN {<<>>}
  ELSE LET shorter == SeqsUpTo(S, n - 1)
       IN shorter \cup {Append(s, e) : s \in {x \in shorter : Len(x) = n - 1}, e \in S}

Batches == SeqsUpTo(Entries, MaxBatch)

WellFormed(batch) == \A k \in 1..Len(batch) : batch[k].pair

----------------------------------------------------------------------------
(* State *)

VARIABLES
  constructed,             \* the Provider constructor has run
  ctorRaised,              \* the Provider constructor threw
  argFallback,             \* the fallbackToBlockstream the constructor was given
  networkType,             \* Provider.networkType
  useBlockstreamFallback,  \* Provider.useBlockstreamFallback
  blockstreamEsplora,      \* Provider.blockstreamEsplora: its baseUrl, or Undefined
  sandshrew,               \* Provider.sandshrew is set
  bsHealth,                \* health of the Blockstream Esplora REST service
  primaryHealth,           \* health of the Sandshrew service
  call                     \* call[t]: the frame of the async call of task t

vars == <<constructed, ctorRaised, argFallback, networkType, useBlockstreamFallback,
          blockstreamEsplora, sandshrew, bsHealth, primaryHealth, call>>

\* The Provider fields other than useBlockstreamFallback.
handles == <<constructed, ctorRaised, argFallback, networkType,
             blockstreamEsplora, sandshrew>>

provider == <<handles, useBlockstreamFallback>>

env == <<bsHealth, primaryHealth>>

NoReceipt ==
  [txId |-> Undefined, rawTx |-> Undefined, size |-> 0, weight |-> 0,
   fee |-> 0, satsPerVByte |-> Undefined]

\* A frame before its call: nothing invoked, nothing returned.
IdleFrame ==
  [pc |-> "idle", op |-> "none", stage |-> "none",
   calls |-> <<>>, i |-> 0, results |-> <<>>, inflight |-> "none",
   psbtHex |-> Undefined, psbtBase64 |-> Undefined, tx |-> "none",
   retKind |-> "none", from |-> "none", value |-> <<>>,
   returned |-> NoReceipt, error |-> "none",
   log |-> <<>>, replies |-> <<>>, suppressed |-> <<>>]

Init ==
  /\ constructed = FALSE
  /\ ctorRaised = FALSE
  /\ argFallback = FALSE
  /\ networkType = Undefined
  /\ useBlockstreamFallback = FALSE
  /\ blockstreamEsplora = Undefined
  /\ sandshrew = FALSE
  /\ bsHealth \in BsHealths
  /\ primaryHealth \in PrimaryHealths
  /\ call = [t \in Tasks |-> IdleFrame]

\* new Provider({networkType, fallbackToBlockstream, ...})
Construct(nt, fallbackToBlockstream) ==
  /\ ~constructed
  /\ LET p == ProviderCtor(nt, fallbackToBlockstream)
     IN /\ constructed' = TRUE
        /\ ctorRaised' = p.raised
        /\ argFallback' = fallbackToBlockstream
        /\ networkType' = p.networkType
        /\ useBlockstreamFallback' = p.useBlockstreamFallback
        /\ blockstreamEsplora' = p.blockstreamEsplora
        /\ sandshrew' = p.sandshrew
  /\ UNCHANGED <<env, call>>

\* A frame can take a new call when it holds none.
Free(t) == constructed /\ ~ctorRaised /\ call[t].pc = "idle"

Returns(f, backend, v) ==
  [f EXCEPT !.pc = "done", !.inflight = "none", !.retKind = "value",
            !.from = backend, !.value = v]

Raises(f, err) ==
  [f EXCEPT !.pc = "done", !.inflight = "none", !.retKind = "error", !.error = err]

\* log: the backend operations the call invoked, in order.
Invoke(f, name) == [f EXCEPT !.log = Append(@, name)]

\* A backend request is issued and the frame awaits its reply at pc p.
Await(f, name, p) == [Invoke(f, name) EXCEPT !.pc = p, !.inflight = name]

\* replies: the outcome of each awaited request, in order; detail is the
\* error of a request that failed.
Replied(f, ok, detail) ==
  [f EXCEPT !.inflight = "none",
            !.replies = Append(@, [what |-> f.inflight, ok |-> ok, detail |-> detail])]

----------------------------------------------------------------------------
(* BlockstreamEsploraClient.multiCall *)

DispatchUnknownFetches(entry) ==
  CASE entry.method = "esplora_address::utxo" ->
         IF entry.params = "bad" THEN [kind |-> "throw", what |-> "TypeError"]
         ELSE [kind |-> "adapter", what |-> "getAddressUtxos"]
    [] entry.method = "btc_getblockcount" ->
         [kind |-> "adapter", what |-> "getBlockHeight"]
    [] entry.method = "ord_output" ->
         IF entry.params = "bad" THEN [kind |-> "throw", what |-> "TypeError"]
         ELSE [kind |-> "value", what |-> "ord_stub"]
    [] entry.method = "alkanes_protorunesbyoutpoint" ->
         [kind |-> "value", what |-> "empty_array"]
    [] OTHER -> [kind |-> "adapter", what |-> "getTxInfo"]

\* What the switch does with one [method, params] pair before any await:
\* issue an adapter request, produce a value, or throw inside the try.
Dispatch(entry) ==
  CASE entry.method = "esplora_address::utxo" ->
         IF entry.params = "bad" THEN [kind |-> "throw", what |-> "TypeError"]
         ELSE [kind |-> "adapter", what |-> "getAddressUtxos"]
    [] entry.method = "btc_getblockcount" ->
         [kind |-> "adapter", what |-> "getBlockHeight"]
    [] entry.method = "ord_output" ->
         IF entry.params = "bad" THEN [kind |-> "throw", what |-> "TypeError"]
         ELSE [kind |-> "value", what |-> "ord_stub"]
    [] entry.method = "esplora_tx" ->
         [kind |-> "adapter", what |-> "getTxInfo"]
    [] entry.method = "alkanes_protorunesbyoutpoint" ->
         [kind |-> "value", what |-> "empty_array"]
    [] OTHER -> [kind |-> "value", what |-> Null]

\* The throw of an adapter request whose fetch fails or is not ok.
ErrFetch == "Error: Failed to fetch"

\* The JSON an adapter request resolves to.
AdapterValue(adapterOp) ==
  CASE adapterOp = "getAddressUtxos" -> "utxos"
    [] adapterOp = "getBlockHeight" -> "height"
    [] adapterOp = "getTxInfo" -> "txinfo"
    [] OTHER -> Null

PushResult(results, v) == Append(results, [result |-> v])

CatchCallErrorDropsEnvelope(results) == results

\* The catch of the loop body: results.push({ result: null })
CatchCallError(results) == PushResult(results, Null)

\* The loop from entry i up to its next await, its return or its throw.
RECURSIVE BsRun(_, _, _)
BsRun(batch, i, results) ==
  IF i > Len(batch) THEN
    [status |-> "return", i |-> i, results |-> results, what |-> "none"]
  ELSE IF ~batch[i].pair THEN
    [status |-> "throw", i |-> i, results |-> results, what |-> "TypeError: not iterable"]
  ELSE
    LET d == Dispatch(batch[i])
    IN CASE d.kind = "adapter" ->
              [status |-> "await", i |-> i, results |-> results, what |-> d.what]
         [] d.kind = "value" -> BsRun(batch, i + 1, PushResult(results, d.what))
         [] OTHER -> BsRun(batch, i + 1, CatchCallError(results))

(* Provider.multiCall *)

PrimaryErrors == {"sandshrew: ECONNREFUSED", "sandshrew: HTTP 503"}

\* What sandshrew.multiCall resolves to: one envelope per call.
PrimaryResult(batch) == [k \in 1..Len(batch) |-> [result |-> "sandshrew"]]

FirstGuardIgnoresPolicy(bs, useFallback) == bs # Undefined

\* if (this.useBlockstreamFallback && this.blockstreamEsplora)
FirstGuard(bs, useFallback) == useFallback /\ bs # Undefined

FallbackGuardIgnoresPolicy(bs, useFallback) == bs # Undefined

FallbackGuardNoNullCheck(bs, useFallback) == ~useFallback

\* if (this.blockstreamEsplora && !this.useBlockstreamFallback)
FallbackGuard(bs, useFallback) == bs # Undefined /\ ~useFallback

\* return await this.sandshrew.multiCall(calls): the request is issued.
CallPrimary(f) == Await(f, "sandshrew.multiCall", "primary_await")

\* BsContinue without the await of the adapter request: the request is
\* issued, its promise is pushed and the loop goes on.
RECURSIVE BsContinueNoAwait(_, _)
BsContinueNoAwait(f, run) ==
  LET g == [f EXCEPT !.i = run.i, !.results = run.results]
  IN CASE run.status = "await" ->
            BsContinueNoAwait(Invoke(g, run.what),
                              BsRun(f.calls, run.i + 1, PushResult(run.results, "promise")))
       [] run.status = "return" -> Returns(g, "blockstream", run.results)
       [] OTHER ->
            IF f.stage = "first"
            THEN CallPrimary([g EXCEPT !.suppressed = Append(@, run.what)])
            ELSE Raises(g, run.what)

\* BsContinue without the try of lines 250-254 around the first attempt.
BsContinueNoCatch(f, run) ==
  LET g == [f EXCEPT !.i = run.i, !.results = run.results]
  IN CASE run.status = "await" ->
            Await(g, run.what, "bs_await")
       [] run.status = "return" -> Returns(g, "blockstream", run.results)
       [] OTHER -> Raises(g, run.what)

\* Where a frame goes after BlockstreamEsploraClient.multiCall ran up to
\* run: into the await of an adapter request, back to its caller with the
\* results, or back to its caller with the throw.
BsContinue(f, run) ==
  LET g == [f EXCEPT !.i = run.i, !.results = run.results]
  IN CASE run.status = "await" ->
            Await(g, run.what, "bs_await")
       [] run.status = "return" -> Returns(g, "blockstream", run.results)
       [] OTHER ->
            IF f.stage = "first"
            THEN CallPrimary([g EXCEPT !.suppressed = Append(@, run.what)])
            ELSE Raises(g, run.what)

\* this.blockstreamEsplora.multiCall(calls), or the TypeError of calling a
\* method of undefined.
CallBlockstream(f, bs, st) ==
  IF bs = Undefined THEN Raises(f, "TypeError: undefined.multiCall")
  ELSE BsContinue([Invoke(f, "blockstream.multiCall") EXCEPT !.stage = st],
                  BsRun(f.calls, 1, <<>>))

\* provider.multiCall(batch)
Route(t, batch) ==
  /\ Free(t)
  /\ LET f == [IdleFrame EXCEPT !.op = "route", !.calls = batch]
     IN call' = [call EXCEPT ![t] =
          IF FirstGuard(blockstreamEsplora, useBlockstreamFallback)
          THEN CallBlockstream(f, blockstreamEsplora, "first")
          ELSE CallPrimary(f)]
  /\ UNCHANGED <<provider, env>>

\* provider.blockstreamEsplora.multiCall(batch)
ExecuteBatch(t, batch) ==
  /\ Free(t)
  /\ blockstreamEsplora # Undefined
  /\ LET f == [IdleFrame EXCEPT !.op = "executeBatch", !.calls = batch]
     IN call' = [call EXCEPT ![t] = CallBlockstream(f, blockstreamEsplora, "direct")]
  /\ UNCHANGED <<provider, env>>

\* An adapter request of the batch resolves (ok) or rejects.
AdapterReply(t, ok) ==
  /\ call[t].pc = "bs_await"
  /\ IF ok THEN CanSucceed(bsHealth) ELSE CanFail(bsHealth)
  /\ LET f == call[t]
         g == Replied(f, ok, IF ok THEN "none" ELSE ErrFetch)
         pushed == IF ok THEN PushResult(f.results, AdapterValue(f.inflight))
                   ELSE CatchCallError(f.results)
     IN call' = [call EXCEPT ![t] = BsContinue(g, BsRun(f.calls, f.i + 1, pushed))]
  /\ UNCHANGED <<provider, env>>

\* sandshrew.multiCall resolves.
PrimaryReply(t) ==
  /\ call[t].pc = "primary_await"
  /\ CanSucceed(primaryHealth)
  /\ LET f == call[t]
     IN call' = [call EXCEPT ![t] =
          Returns(Replied(f, TRUE, "none"), "sandshrew", PrimaryResult(f.calls))]
  /\ UNCHANGED <<provider, env>>

PolicyAfterFailureSticky(useFallback) == TRUE

\* useBlockstreamFallback after the catch of lines 260-270: the catch
\* assigns no field, the policy stays what the constructor made it.
PolicyAfterFailure(useFallback) == useFallback

\* sandshrew.multiCall rejects with err: fall back to Blockstream or rethrow.
PrimaryFails(t, err) ==
  /\ call[t].pc = "primary_await"
  /\ CanFail(primaryHealth)
  /\ LET g == Replied(call[t], FALSE, err)
     IN call' = [call EXCEPT ![t] =
          IF FallbackGuard(blockstreamEsplora, useBlockstreamFallback)
          THEN CallBlockstream([g EXCEPT !.suppressed = Append(@, err)],
                               blockstreamEsplora, "fallback")
          ELSE Raises(g, err)]
  /\ useBlockstreamFallback' = PolicyAfterFailure(useBlockstreamFallback)
  /\ UNCHANGED <<handles, env>>

----------------------------------------------------------------------------
(* Provider.pushPsbt *)

\* The payloads a caller passes: nothing, the empty string, the encoding of
\* a finalized PSBT, of a PSBT that is not finalized, and text that is not
\* a PSBT.
HexPayloads == {Undefined, "", "hexA", "hexUnfinalized", "hexGarbage"}
Base64Payloads == {Undefined, "", "b64B", "b64Garbage"}

\* JavaScript truthiness of an optional string.
Truthy(p) == p \notin {Undefined, ""}

ErrSupply == "Please supply psbt in either base64 or hex format"
ErrSelectOne == "Please select one format of psbt to broadcast"
ErrExtract == "Transaction could not be extracted do to invalid Psbt."
ErrNoService == "No available service to broadcast transaction"

ValidatePayloadAcceptsBoth(psbtHex, psbtBase64) ==
  IF ~Truthy(psbtHex) /\ ~Truthy(psbtBase64) THEN ErrSupply
  ELSE "ok"

\* The two checks at the head of pushPsbt.
ValidatePayload(psbtHex, psbtBase64) ==
  IF ~Truthy(psbtHex) /\ ~Truthy(psbtBase64) THEN ErrSupply
  ELSE IF Truthy(psbtHex) /\ Truthy(psbtBase64) THEN ErrSelectOne
  ELSE "ok"

\* bitcoin.Psbt.fromHex / fromBase64: the PSBT, or the throw of the parser.
FromHex(p) ==
  CASE p = "hexA" -> [ok |-> TRUE, psbt |-> "psbtA"]
    [] p = "hexUnfinalized" -> [ok |-> TRUE, psbt |-> "psbtUnfinalized"]
    [] OTHER -> [ok |-> FALSE, psbt |-> Undefined]

FromBase64(p) ==
  CASE p = "b64B" -> [ok |-> TRUE, psbt |-> "psbtB"]
    [] OTHER -> [ok |-> FALSE, psbt |-> Undefined]

ErrParse == "Error: invalid PSBT encoding"

\* psbt.extractTransaction(): the transaction of a finalized PSBT.
ExtractTransaction(psbt) ==
  CASE psbt = "psbtA" -> [ok |-> TRUE, tx |-> "A"]
    [] psbt = "psbtB" -> [ok |-> TRUE, tx |-> "B"]
    [] OTHER -> [ok |-> FALSE, tx |-> "none"]

\* Lines 286-306: the transaction of the payload, or the error thrown.
Decode(psbtHex, psbtBase64) ==
  LET h == IF Truthy(psbtHex) THEN FromHex(psbtHex) ELSE [ok |-> TRUE, psbt |-> Undefined]
      b == IF Truthy(psbtBase64) THEN FromBase64(psbtBase64) ELSE [ok |-> TRUE, psbt |-> h.psbt]
      x == ExtractTransaction(b.psbt)
  IN IF ~h.ok \/ ~b.ok THEN [ok |-> FALSE, tx |-> "none", error |-> ErrParse]
     ELSE IF ~x.ok THEN [ok |-> FALSE, tx |-> "none", error |-> ErrExtract]
     ELSE [ok |-> TRUE, tx |-> x.tx, error |-> "none"]

\* extractedTx.getId(), toHex(), virtualSize(), weight()
TxId(tx) == IF tx = "A" THEN "txidA" ELSE "txidB"
RawTx(tx) == IF tx = "A" THEN "rawA" ELSE "rawB"
TxWeight(tx) == IF tx = "A" THEN 400 ELSE 561
TxVirtualSize(tx) == (TxWeight(tx) + 3) \div 4

Digit(d) ==
  CASE d = 0 -> "0" [] d = 1 -> "1" [] d = 2 -> "2" [] d = 3 -> "3" [] d = 4 -> "4"
    [] d = 5 -> "5" [] d = 6 -> "6" [] d = 7 -> "7" [] d = 8 -> "8" [] OTHER -> "9"

RECURSIVE IntToString(_)
IntToString(n) ==
  IF n < 10 THEN Digit(n) ELSE IntToString(n \div 10) \o Digit(n % 10)

\* Number.prototype.toFixed(2) of hundredths / 100.
ToFixed2(hundredths) ==
  IntToString(hundredths \div 100) \o "."
    \o Digit((hundredths \div 10) % 10) \o Digit(hundredths % 10)

RateHundredthsPerWeightUnit(fee, weight) ==
  LET q == (100 * fee) \div weight
      r == (100 * fee) % weight
  IN IF 2 * r < weight THEN {q} ELSE IF 2 * r > weight THEN {q + 1} ELSE {q, q + 1}

\* fee / (weight / 4) in hundredths, as toFixed(2) rounds it: to the nearer
\* hundredth.  fee and the quotient are doubles (fee = fees.base * 10 ** 8
\* may be off a whole number by one ulp), which moves the result only when
\* the exact quotient lies halfway between two hundredths; there the double
\* is above or below the midpoint and toFixed goes up or down with it.
RateHundredths(fee, weight) ==
  LET q == (400 * fee) \div weight
      r == (400 * fee) % weight
  IN IF 2 * r < weight THEN {q} ELSE IF 2 * r > weight THEN {q + 1} ELSE {q, q + 1}

\* (fee / (txInMemPool.weight / 4)).toFixed(2): the strings line 354 can
\* produce for a fee in satoshis.
SatsPerVByte(fee, weight) == {ToFixed2(h) : h \in RateHundredths(fee, weight)}

\* What getMemPoolEntry resolves to; baseSats is fees.base * 10 ** 8.
PoolEntries ==
  {[vsize |-> 100, weight |-> 400, baseSats |-> 1000],
   [vsize |-> 141, weight |-> 561, baseSats |-> 250],
   [vsize |-> 200, weight |-> 800, baseSats |-> 3]}

RejectReasons == {"min relay fee not met", "txn-mempool-conflict"}
PushErrors == {"Failed to broadcast transaction: bad-txns-inputs-missingorspent",
               "FetchError: network timeout"}
RpcErrors == {"sandshrew rpc: ECONNREFUSED", "sandshrew rpc: timeout"}

\* The txid text a backend answers a submission with: that of the
\* transaction, or another one.
BackendTxIds == {"txidA", "txidB", "txidX"}

ReceiptTxIdFromBackend(localTxId, backendTxId) == backendTxId

\* txId of the receipt: const txId = extractedTx.getId() (line 305); the
\* text pushTx resolves to is awaited and dropped (line 312).
ReceiptTxId(localTxId, backendTxId) == localTxId

\* The receipt of the Blockstream path (lines 315-322).
BlockstreamReceipt(tx, backendTxId) ==
  [txId |-> ReceiptTxId(TxId(tx), backendTxId), rawTx |-> RawTx(tx),
   size |-> TxVirtualSize(tx), weight |-> TxWeight(tx), fee |-> 0,
   satsPerVByte |-> "0"]

\* The receipt of the Sandshrew path (lines 345-355).
SandshrewReceipt(tx, entry, rate) ==
  [txId |-> TxId(tx), rawTx |-> RawTx(tx), size |-> entry.vsize,
   weight |-> entry.weight, fee |-> entry.baseSats,
   satsPerVByte |-> rate]

ReturnsReceipt(f, backend, r) ==
  [f EXCEPT !.pc = "done", !.inflight = "none", !.retKind = "value",
            !.from = backend, !.returned = r]

\* if (this.useBlockstreamFallback || !this.sandshrew)
PushViaBlockstream(useFallback, hasSandshrew) == useFallback \/ ~hasSandshrew

StartSandshrewPushSkipsTest(f) == Await(f, "sendRawTransaction", "send_await")

\* Line 333: the Sandshrew logic starts with testMemPoolAccept.
StartSandshrewPush(f) == Await(f, "testMemPoolAccept", "test_await")

PushCatchFallsThrough(err) == [rethrow |-> FALSE, error |-> err]

\* catch (blockstreamError) { console.error(...); throw blockstreamError }
PushCatch(err) == [rethrow |-> TRUE, error |-> err]

\* provider.pushPsbt({psbtHex, psbtBase64}) up to its first await.
PushPsbt(t, psbtHex, psbtBase64) ==
  /\ Free(t)
  /\ LET f == [IdleFrame EXCEPT !.op = "broadcast", !.psbtHex = psbtHex,
                                !.psbtBase64 = psbtBase64]
         v == ValidatePayload(psbtHex, psbtBase64)
         d == Decode(psbtHex, psbtBase64)
         g == [f EXCEPT !.tx = d.tx]
     IN call' = [call EXCEPT ![t] =
          IF v # "ok" THEN Raises(f, v)
          ELSE IF ~d.ok THEN Raises(f, d.error)
          ELSE IF PushViaBlockstream(useBlockstreamFallback, sandshrew)
          THEN IF blockstreamEsplora # Undefined
               THEN Await(g, "blockstream.pushTx", "push_await")
               ELSE Raises(g, ErrNoService)
          ELSE StartSandshrewPush(g)]
  /\ UNCHANGED <<provider, env>>

\* blockstreamEsplora.pushTx resolves to the text backendTxId.
PushTxReply(t, backendTxId) ==
  /\ call[t].pc = "push_await"
  /\ CanSucceed(bsHealth)
  /\ LET f == call[t]
     IN call' = [call EXCEPT ![t] =
          ReturnsReceipt(Replied(f, TRUE, backendTxId), "blockstream",
                         BlockstreamReceipt(f.tx, backendTxId))]
  /\ UNCHANGED <<provider, env>>

\* blockstreamEsplora.pushTx rejects with err.
PushTxFails(t, err) ==
  /\ call[t].pc = "push_await"
  /\ CanFail(bsHealth)
  /\ LET g == Replied(call[t], FALSE, err)
         c == PushCatch(err)
     IN call' = [call EXCEPT ![t] =
          IF c.rethrow THEN Raises(g, c.error) ELSE StartSandshrewPush(g)]
  /\ UNCHANGED <<provider, env>>

RejectErrorGeneric(reason) == "Error: transaction rejected by mempool"

\* throw new Error(result['reject-reason']): the message is the reason.
RejectError(reason) == reason

\* testMemPoolAccept resolves with allowed, or with a reject-reason.
TestAcceptReply(t, allowed, reason) ==
  /\ call[t].pc = "test_await"
  /\ CanSucceed(primaryHealth)
  /\ LET g == Replied(call[t], allowed, reason)
     IN call' = [call EXCEPT ![t] =
          IF ~allowed THEN Raises(g, RejectError(reason))
          ELSE Await(g, "sendRawTransaction", "send_await")]
  /\ UNCHANGED <<provider, env>>

\* sendRawTransaction resolves to backendTxId, which line 338 drops.
SendRawReply(t, backendTxId) ==
  /\ call[t].pc = "send_await"
  /\ CanSucceed(primaryHealth)
  /\ call' = [call EXCEPT ![t] =
       Await(Replied(call[t], TRUE, backendTxId), "waitForTransaction", "wait_await")]
  /\ UNCHANGED <<provider, env>>

\* waitForTransaction resolves.
WaitReply(t) ==
  /\ call[t].pc = "wait_await"
  /\ CanSucceed(primaryHealth)
  /\ call' = [call EXCEPT ![t] =
       Await(Replied(call[t], TRUE, "none"), "getMemPoolEntry", "entry_await")]
  /\ UNCHANGED <<provider, env>>

\* getMemPoolEntry resolves with entry.
PoolEntryReply(t, entry) ==
  /\ call[t].pc = "entry_await"
  /\ CanSucceed(primaryHealth)
  /\ LET f == call[t]
     IN \E rate \in SatsPerVByte(entry.baseSats, entry.weight) :
          call' = [call EXCEPT ![t] =
            ReturnsReceipt(Replied(f, TRUE, "none"), "sandshrew",
                           SandshrewReceipt(f.tx, entry, rate))]
  /\ UNCHANGED <<provider, env>>

OnRpcFailureRetriesBlockstream(f, err) == Await(f, "blockstream.pushTx", "push_await")

\* Lines 333-345 have no try: the rejection of an awaited Sandshrew RPC is
\* the rejection of pushPsbt.
OnRpcFailure(f, err) == Raises(f, err)

\* An awaited Sandshrew RPC of pushPsbt rejects with err.
RpcFails(t, err) ==
  /\ call[t].pc \in {"test_await", "send_await", "wait_await", "entry_await"}
  /\ CanFail(primaryHealth)
  /\ call' = [call EXCEPT ![t] = OnRpcFailure(Replied(call[t], FALSE, err), err)]
  /\ UNCHANGED <<provider, env>>

\* The caller takes the result of the call; the frame is free again.
Return(t) ==
  /\ call[t].pc = "done"
  /\ call' = [call EXCEPT ![t] = IdleFrame]
  /\ UNCHANGED <<provider, env>>

----------------------------------------------------------------------------
Next ==
  \/ \E nt \in NetworkTypes, flag \in BOOLEAN : Construct(nt, flag)
  \/ \E t \in SeqTasks, batch \in Batches : Route(t, batch)
  \/ \E t \in SeqTasks, batch \in Batches : ExecuteBatch(t, batch)
  \/ \E t \in SeqTasks, ok \in BOOLEAN : AdapterReply(t, ok)
  \/ \E t \in SeqTasks : PrimaryReply(t)
  \/ \E t \in SeqTasks, err \in PrimaryErrors : PrimaryFails(t, err)
  \/ \E t \in SeqTasks, h \in HexPayloads, b \in Base64Payloads : PushPsbt(t, h, b)
  \/ \E t \in SeqTasks, id \in BackendTxIds : PushTxReply(t, id)
  \/ \E t \in SeqTasks, err \in PushErrors : PushTxFails(t, err)
  \/ \E t \in SeqTasks, reason \in RejectReasons :
       TestAcceptReply(t, TRUE, "none") \/ TestAcceptReply(t, FALSE, reason)
  \/ \E t \in SeqTasks, id \in BackendTxIds : SendRawReply(t, id)
  \/ \E t \in SeqTasks : WaitReply(t)
  \/ \E t \in SeqTasks, entry \in PoolEntries : PoolEntryReply(t, entry)
  \/ \E t \in SeqTasks, err \in RpcErrors : RpcFails(t, err)
  \/ \E t \in SeqTasks : Return(t)

Spec == Init /\ [][Next]_vars

----------------------------------------------------------------------------
(* Concurrent calls: the frames of Tasks run interleaved, each suspended at
   its await while the other runs.  The inputs are fewer than those of Spec. *)

ConcEntries ==
  {[pair |-> TRUE, method |-> "btc_getblockcount", params |-> "good"],
   [pair |-> TRUE, method |-> "unknown_method", params |-> "good"]}

ConcBatches == {b \in SeqsUpTo(ConcEntries, MaxBatch) : Len(b) = MaxBatch}

ConcPayloads == {<<"hexA", Undefined>>, <<"hexA", "b64B">>}

InitConc == Init /\ bsHealth = "flaky" /\ primaryHealth = "flaky"

NextConc ==
  \/ \E nt \in NetworkTypes, flag \in BOOLEAN : Construct(nt, flag)
  \/ \E t \in Tasks, batch \in ConcBatches : Route(t, batch)
  \/ \E t \in Tasks, batch \in ConcBatches : ExecuteBatch(t, batch)
  \/ \E t \in Tasks, ok \in BOOLEAN : AdapterReply(t, ok)
  \/ \E t \in Tasks : PrimaryReply(t)
  \/ \E t \in Tasks : PrimaryFails(t, "sandshrew: HTTP 503")
  \/ \E t \in Tasks, p \in ConcPayloads : PushPsbt(t, p[1], p[2])
  \/ \E t \in Tasks : PushTxReply(t, "txidA")
  \/ \E t \in Tasks : PushTxFails(t, "FetchError: network timeout")
  \/ \E t \in Tasks :
       TestAcceptReply(t, TRUE, "none") \/ TestAcceptReply(t, FALSE, "txn-mempool-conflict")
  \/ \E t \in Tasks : SendRawReply(t, "txidA")
  \/ \E t \in Tasks : WaitReply(t)
  \/ \E t \in Tasks, entry \in PoolEntries : PoolEntryReply(t, entry)
  \/ \E t \in Tasks : RpcFails(t, "sandshrew rpc: timeout")
  \/ \E t \in Tasks : Return(t)

SpecConc == InitConc /\ [][NextConc]_vars

----------------------------------------------------------------------------
(* Properties *)

Count(seq, x) == Cardinality({k \in DOMAIN seq : seq[k] = x})

Invoked(f, name) == Count(f.log, name) > 0

\* The replies of the Blockstream adapter requests of a batch, in order.
AdapterReplies(f) ==
  SelectSeq(f.replies, LAMBDA r : r.what \in {"getAddressUtxos", "getBlockHeight", "getTxInfo"})

\* The entries of a batch that reach an adapter request.
IsAdapterCall(entry) ==
  /\ entry.params = "good"
  /\ entry.method \in {"esplora_address::utxo", "btc_getblockcount", "esplora_tx"}

AdapterCallsUpTo(batch, k) == Cardinality({j \in 1..k : IsAdapterCall(batch[j])})

\* The envelope the k-th call of a finished batch is due, given the replies
\* its adapter requests got.
DueEnvelope(f, k) ==
  LET entry == f.calls[k]
      reply == AdapterReplies(f)[AdapterCallsUpTo(f.calls, k)]
  IN CASE entry.method = "unknown_method" -> Null
       [] entry.params = "bad" -> Null
       [] entry.method = "ord_output" -> "ord_stub"
       [] entry.method = "alkanes_protorunesbyoutpoint" -> "empty_array"
       [] ~reply.ok -> Null
       [] entry.method = "esplora_address::utxo" -> "utxos"
       [] entry.method = "btc_getblockcount" -> "height"
       [] OTHER -> "txinfo"

\* A call in which BlockstreamEsploraClient.multiCall ran a batch of
\* [method, params] pairs to its end.
RanBatch(f) ==
  /\ f.pc = "done"
  /\ f.op \in {"route", "executeBatch"}
  /\ f.stage # "none"
  /\ WellFormed(f.calls)

\* C1: BlockstreamEsploraClient.multiCall, given a batch of N [method, params]
\* pairs, returns N envelopes, the i-th being the result of the i-th call
\* (null for an unknown method, for parameters that cannot be read and for
\* an adapter request that failed), and it never throws.
C1_BatchLengthAndOrder ==
  \A t \in Tasks :
    LET f == call[t]
    IN RanBatch(f) =>
         /\ f.retKind = "value"
         /\ f.from = "blockstream"
         /\ Len(f.value) = Len(f.calls)
         /\ \A k \in 1..Len(f.calls) : f.value[k].result = DueEnvelope(f, k)

\* A finished batch of MaxBatch calls with a failed adapter request and a
\* call that produced a result.
C1_Witness ==
  \E t \in Tasks :
    LET f == call[t]
    IN /\ RanBatch(f)
       /\ Len(f.calls) = MaxBatch
       /\ \E k \in 1..Len(f.replies) : ~f.replies[k].ok /\ f.replies[k].detail = ErrFetch
       /\ \E k \in 1..Len(f.value) : f.value[k].result # Null

\* C2: with useBlockstreamFallback set, a Blockstream client whose adapter
\* requests all fail and a healthy Sandshrew, Provider.multiCall returns the
\* results of Sandshrew.
C2_UnavailableSecondaryFallsBackToPrimary ==
  \A t \in Tasks :
    LET f == call[t]
    IN ( /\ f.op = "route"
         /\ f.pc = "done"
         /\ useBlockstreamFallback
         /\ blockstreamEsplora # Undefined
         /\ bsHealth = "down"
         /\ primaryHealth = "up"
         /\ Len(AdapterReplies(f)) > 0 )
       => f.retKind = "value" /\ f.from = "sandshrew"

\* C3: one Provider.multiCall call invokes blockstreamEsplora.multiCall at
\* most once.
C3_SecondaryAtMostOnce ==
  \A t \in Tasks :
    call[t].op = "route" => Count(call[t].log, "blockstream.multiCall") <= 1

\* A route call that invoked both backends.
C3_Witness ==
  \E t \in Tasks :
    /\ call[t].op = "route"
    /\ call[t].pc = "done"
    /\ Invoked(call[t], "blockstream.multiCall")
    /\ Invoked(call[t], "sandshrew.multiCall")

\* C4: on signet every Provider.multiCall call invokes
\* blockstreamEsplora.multiCall first; sandshrew.multiCall is invoked only
\* after it.
C4_SignetSecondaryFirst ==
  \A t \in Tasks :
    LET f == call[t]
    IN (networkType = "signet" /\ f.op = "route") =>
         /\ f.log # <<>>
         /\ f.log[1] = "blockstream.multiCall"
         /\ \A k \in 1..Len(f.log) :
              f.log[k] = "sandshrew.multiCall" =>
                \E j \in 1..(k - 1) : f.log[j] = "blockstream.multiCall"

\* A signet route call that went on to Sandshrew after Blockstream threw.
C4_Witness ==
  \E t \in Tasks :
    /\ networkType = "signet"
    /\ call[t].op = "route"
    /\ call[t].pc = "done"
    /\ call[t].log = <<"blockstream.multiCall", "sandshrew.multiCall">>

\* The reply of sandshrew.multiCall in this call was a failure.
PrimaryFailedWith(f, err) ==
  \E k \in 1..Len(f.replies) :
    f.replies[k] = [what |-> "sandshrew.multiCall", ok |-> FALSE, detail |-> err]

\* C5: without a Blockstream client, a failure of sandshrew.multiCall is
\* what Provider.multiCall throws, and no other backend is invoked.
C5_PrimaryFailurePropagatedUnchanged ==
  \A t \in Tasks :
    LET f == call[t]
    IN \A err \in PrimaryErrors :
         (f.op = "route" /\ f.pc = "done" /\ blockstreamEsplora = Undefined
            /\ PrimaryFailedWith(f, err))
         => /\ f.retKind = "error"
            /\ f.error = err
            /\ f.log = <<"sandshrew.multiCall">>

\* A route call without a Blockstream client in which Sandshrew failed.
C5_Witness ==
  \E t \in Tasks, err \in PrimaryErrors :
    /\ call[t].op = "route"
    /\ call[t].pc = "done"
    /\ blockstreamEsplora = Undefined
    /\ PrimaryFailedWith(call[t], err)

\* A payload was supplied: a non-empty string.
Supplied(payload) == payload # Undefined /\ payload # ""

\* C6: pushPsbt given both a hex and a base64 payload, or neither, throws
\* the input error at once: no backend operation is invoked.
C6_InvalidInputImmediate ==
  \A t \in Tasks :
    LET f == call[t]
    IN (f.op = "broadcast" /\ Supplied(f.psbtHex) = Supplied(f.psbtBase64)) =>
         /\ f.pc = "done"
         /\ f.retKind = "error"
         /\ f.error = (IF Supplied(f.psbtHex) THEN ErrSelectOne ELSE ErrSupply)
         /\ f.log = <<>>

\* A pushPsbt call given two payloads.
C6_Witness ==
  \E t \in Tasks :
    /\ call[t].op = "broadcast"
    /\ call[t].pc = "done"
    /\ call[t].psbtHex = "hexA"
    /\ call[t].psbtBase64 = "b64B"

\* A pushPsbt call that returned the receipt of the Blockstream path.
BroadcastViaBlockstream(f) ==
  /\ f.op = "broadcast"
  /\ f.pc = "done"
  /\ f.retKind = "value"
  /\ f.from = "blockstream"

\* C7: a broadcast that succeeds through Blockstream returns fee = 0 and
\* the fee rate "0.00".
C7_SecondaryReceiptFeeRate ==
  \A t \in Tasks :
    BroadcastViaBlockstream(call[t]) =>
      /\ call[t].returned.fee = 0
      /\ call[t].returned.satsPerVByte = "0.00"

\* The call got no failure and no rejection from a backend.
AllRepliesOk(f) == \A k \in 1..Len(f.replies) : f.replies[k].ok

\* The payload is one encoding of a finalized PSBT.
ValidPayload(f) ==
  \/ f.psbtHex = "hexA" /\ ~Supplied(f.psbtBase64)
  \/ f.psbtBase64 = "b64B" /\ ~Supplied(f.psbtHex)

SandshrewPushPath ==
  <<"testMemPoolAccept", "sendRawTransaction", "waitForTransaction", "getMemPoolEntry">>

\* C8: without a Blockstream client every route call is served by
\* Sandshrew, and every broadcast of a valid payload that a healthy
\* Sandshrew accepts goes through the Sandshrew path and returns a receipt,
\* whatever useBlockstreamFallback is.
C8_PrimaryOnlyUsable ==
  \A t \in Tasks :
    LET f == call[t]
    IN (blockstreamEsplora = Undefined /\ f.pc = "done") =>
         /\ f.op = "route" => f.log = <<"sandshrew.multiCall">>
         /\ (f.op = "broadcast" /\ ValidPayload(f) /\ primaryHealth = "up"
               /\ AllRepliesOk(f)) =>
              /\ f.retKind = "value"
              /\ f.from = "sandshrew"
              /\ f.log = SandshrewPushPath

\* C9: the constructor does not throw, and it leaves a Blockstream client
\* exactly for mainnet, testnet and signet.
C9_ConstructionFailsClosed ==
  constructed =>
    /\ ~ctorRaised
    /\ (blockstreamEsplora # Undefined) <=> (networkType \in {"mainnet", "testnet", "signet"})

\* regtest constructed with fallbackToBlockstream: the Blockstream
\* constructor was tried and threw.
C9_Witness ==
  /\ constructed
  /\ networkType = "regtest"
  /\ useBlockstreamFallback
  /\ blockstreamEsplora = Undefined

\* The request name got a failure, with error err, in this call.
FailedWith(f, name, err) ==
  \E k \in 1..Len(f.replies) :
    f.replies[k] = [what |-> name, ok |-> FALSE, detail |-> err]

\* C10: one pushPsbt call submits the raw transaction to one backend at
\* most, once at most; a failure of blockstreamEsplora.pushTx is thrown and
\* the Sandshrew path is not entered; after sendRawTransaction fails,
\* pushTx is not invoked.
C10_NoRetryOfSubmission ==
  \A t \in Tasks :
    LET f == call[t]
    IN f.op = "broadcast" =>
         /\ Count(f.log, "blockstream.pushTx") + Count(f.log, "sendRawTransaction") <= 1
         /\ Invoked(f, "blockstream.pushTx") =>
              ~Invoked(f, "testMemPoolAccept") /\ ~Invoked(f, "sendRawTransaction")
         /\ \A err \in PushErrors :
              FailedWith(f, "blockstream.pushTx", err) =>
                f.pc = "done" /\ f.retKind = "error" /\ f.error = err
         /\ \A err \in RpcErrors :
              FailedWith(f, "sendRawTransaction", err) =>
                f.pc = "done" /\ f.retKind = "error" /\ f.error = err

\* A pushPsbt call whose submission to Blockstream failed.
C10_Witness ==
  \E t \in Tasks, err \in PushErrors :
    /\ call[t].op = "broadcast"
    /\ call[t].pc = "done"
    /\ FailedWith(call[t], "blockstream.pushTx", err)

\* A request of the Sandshrew path of pushPsbt failed or was rejected, with
\* detail err.
PrimaryPushFailedWith(f, err) ==
  \E k \in 1..Len(f.replies) :
    /\ f.replies[k].what \in {"testMemPoolAccept", "sendRawTransaction",
                              "waitForTransaction", "getMemPoolEntry"}
    /\ ~f.replies[k].ok
    /\ f.replies[k].detail = err

PrimaryPushFailures == RpcErrors \cup RejectReasons

\* C11 as claimed: when a broadcast through Sandshrew fails and a Blockstream
\* client exists, the raw transaction is then submitted to Blockstream
\* (stated for the failure of an RPC, the backend being unavailable).
C11_FailedBroadcastReroutedToSecondary ==
  \A t \in Tasks, err \in RpcErrors :
    LET f == call[t]
    IN (f.op = "broadcast" /\ f.pc = "done" /\ blockstreamEsplora # Undefined
          /\ PrimaryPushFailedWith(f, err))
       => Invoked(f, "blockstream.pushTx")

\* C11 as amended: when a broadcast through Sandshrew fails, pushPsbt throws
\* that failure and the raw transaction is not submitted to Blockstream,
\* whether or not a Blockstream client exists.
C11_FailedBroadcastNotRerouted ==
  \A t \in Tasks, err \in PrimaryPushFailures :
    LET f == call[t]
    IN (f.op = "broadcast" /\ PrimaryPushFailedWith(f, err)) =>
         /\ f.pc = "done"
         /\ f.retKind = "error"
         /\ f.error = err
         /\ ~Invoked(f, "blockstream.pushTx")

\* A broadcast through Sandshrew that failed at an RPC while a Blockstream
\* client exists.
C11_Witness ==
  \E t \in Tasks, err \in RpcErrors :
    /\ call[t].op = "broadcast"
    /\ call[t].pc = "done"
    /\ blockstreamEsplora # Undefined
    /\ PrimaryPushFailedWith(call[t], err)

\* The txid of the transaction the payload of the call decodes to.
LocalTxId(f) == IF Supplied(f.psbtHex) THEN "txidA" ELSE "txidB"

\* The txid text a backend answered the submission of this call with.
BackendAnswered(f, id) ==
  \E k \in 1..Len(f.replies) :
    /\ f.replies[k].what \in {"blockstream.pushTx", "sendRawTransaction"}
    /\ f.replies[k].ok
    /\ f.replies[k].detail = id

\* C12: on both paths the txId of a returned receipt is the txid of the
\* decoded transaction, whatever txid the backend answered with.
C12_ReceiptTxIdIsLocal ==
  \A t \in Tasks :
    LET f == call[t]
    IN (f.op = "broadcast" /\ f.pc = "done" /\ f.retKind = "value") =>
         /\ f.returned.txId = LocalTxId(f)
         /\ f.returned.rawTx = (IF Supplied(f.psbtHex) THEN "rawA" ELSE "rawB")

\* A receipt of the Blockstream path returned after the backend answered
\* with another txid.
C12_Witness ==
  \E t \in Tasks, id \in BackendTxIds :
    LET f == call[t]
    IN /\ f.op = "broadcast"
       /\ f.pc = "done"
       /\ f.retKind = "value"
       /\ f.from = "blockstream"
       /\ BackendAnswered(f, id)
       /\ id # LocalTxId(f)

\* C13: when testMemPoolAccept answers not allowed, pushPsbt throws an error
\* whose message is the reject-reason of the answer, and
\* sendRawTransaction is not invoked.
C13_RejectReasonSurfaced ==
  \A t \in Tasks, reason \in RejectReasons :
    LET f == call[t]
    IN (f.op = "broadcast" /\ FailedWith(f, "testMemPoolAccept", reason)) =>
         /\ f.pc = "done"
         /\ f.retKind = "error"
         /\ f.error = reason
         /\ f.log = <<"testMemPoolAccept">>

\* A broadcast that testMemPoolAccept rejected.
C13_Witness ==
  \E t \in Tasks :
    /\ call[t].op = "broadcast"
    /\ call[t].pc = "done"
    /\ FailedWith(call[t], "testMemPoolAccept", "txn-mempool-conflict")

\* A pushPsbt call that returned the receipt of the Sandshrew path.
BroadcastViaSandshrew(f) ==
  /\ f.op = "broadcast"
  /\ f.pc = "done"
  /\ f.retKind = "value"
  /\ f.from = "sandshrew"

Abs(n) == IF n < 0 THEN 0 - n ELSE n

\* rate is a two-decimal string whose value is a hundredth nearest to
\* fee / (weight / 4).
IsRoundedRate(rate, fee, weight) ==
  \E h \in 0..((400 * fee) \div weight + 1) :
    /\ rate = ToFixed2(h)
    /\ 2 * Abs(h * weight - 400 * fee) <= weight

\* C14: on the Sandshrew path satsPerVByte is fee / (weight / 4) rounded to
\* two decimals and written with two decimals, fee being fees.base in
\* satoshis; fee = 1000 and weight = 400 give "10.00".
C14_PrimaryFeeRate ==
  \A t \in Tasks :
    LET r == call[t].returned
    IN BroadcastViaSandshrew(call[t]) =>
         /\ IsRoundedRate(r.satsPerVByte, r.fee, r.weight)
         /\ (r.fee = 1000 /\ r.weight = 400) => r.satsPerVByte = "10.00"
         /\ (r.fee = 250 /\ r.weight = 561) => r.satsPerVByte = "1.78"
         /\ (r.fee = 3 /\ r.weight = 800) => r.satsPerVByte \in {"0.01", "0.02"}

\* A receipt of the Sandshrew path whose fee rate had to be rounded.
C14_Witness ==
  \E t \in Tasks :
    /\ BroadcastViaSandshrew(call[t])
    /\ call[t].returned.fee = 250
    /\ call[t].returned.weight = 561
    /\ call[t].returned.satsPerVByte = "1.78"

\* C15: useBlockstreamFallback is the constructor's fallbackToBlockstream
\* or networkType = signet, and once the constructor has run no call
\* changes it or the Blockstream client, whether the call succeeds or fails.
C15_PolicyFixedAtConstruction ==
  /\ [](constructed =>
          (useBlockstreamFallback <=> (argFallback \/ networkType = "signet")))
  /\ [][constructed =>
          /\ useBlockstreamFallback' = useBlockstreamFallback
          /\ blockstreamEsplora' = blockstreamEsplora
          /\ networkType' = networkType]_vars

\* A route call that fell back to Blockstream after Sandshrew failed, under
\* a policy that is still off.
C15_Witness ==
  \E t \in Tasks :
    /\ constructed
    /\ ~useBlockstreamFallback
    /\ ~argFallback
    /\ blockstreamEsplora # Undefined
    /\ call[t].op = "route"
    /\ call[t].pc = "done"
    /\ call[t].stage = "fallback"

AdapterOps == {"getAddressUtxos", "getBlockHeight", "getTxInfo"}

\* The adapter requests a call issued, in order.
IssuedOps(f) == SelectSeq(f.log, LAMBDA name : name \in AdapterOps)

\* The adapter operation the vocabulary maps a method to.
AdapterOpOf(entry) ==
  CASE entry.method = "esplora_address::utxo" -> "getAddressUtxos"
    [] entry.method = "btc_getblockcount" -> "getBlockHeight"
    [] OTHER -> "getTxInfo"

\* The adapter operations of the calls of a batch that have one, in order.
DueOps(batch) ==
  LET adapterCalls == SelectSeq(batch, IsAdapterCall)
  IN [k \in 1..Len(adapterCalls) |-> AdapterOpOf(adapterCalls[k])]

\* The adapter request of the k-th call failed.
AdapterFailed(f, k) ==
  IsAdapterCall(f.calls[k]) /\ ~AdapterReplies(f)[AdapterCallsUpTo(f.calls, k)].ok

\* The k-th call cannot be satisfied: unknown method, unreadable
\* parameters, or a failed adapter request.
Unsatisfied(f, k) ==
  \/ f.calls[k].method = "unknown_method"
  \/ f.calls[k].params = "bad"
  \/ AdapterFailed(f, k)

\* The result of a call that succeeds.
SuccessValue(entry) ==
  CASE entry.method = "esplora_address::utxo" -> "utxos"
    [] entry.method = "btc_getblockcount" -> "height"
    [] entry.method = "ord_output" -> "ord_stub"
    [] entry.method = "esplora_tx" -> "txinfo"
    [] OTHER -> "empty_array"

\* C16: in a batch, a call with an unknown method or a failed adapter
\* request gets the null envelope and nothing else changes: the adapter
\* requests issued are those of the known calls, all of them, in order (none
\* for an unknown method, none skipped after a failure), and every other
\* call has the envelope of its own success.
C16_FailureConfinedToItsCall ==
  \A t \in Tasks :
    LET f == call[t]
    IN RanBatch(f) =>
         /\ IssuedOps(f) = DueOps(f.calls)
         /\ \A k \in 1..Len(f.calls) :
              /\ Unsatisfied(f, k) => f.value[k] = [result |-> Null]
              /\ ~Unsatisfied(f, k) => f.value[k] = [result |-> SuccessValue(f.calls[k])]

\* A finished batch whose first call has an unknown method and whose last
\* call got its adapter result.
C16_Witness ==
  \E t \in Tasks :
    LET f == call[t]
    IN /\ RanBatch(f)
       /\ Len(f.calls) = MaxBatch
       /\ f.calls[1].method = "unknown_method"
       /\ IsAdapterCall(f.calls[MaxBatch])
       /\ f.value[1].result = Null
       /\ f.value[MaxBatch].result # Null

\* A frame inside, or past, a run of BlockstreamEsploraClient.multiCall.
InBatch(f) == f.op \in {"route", "executeBatch"} /\ f.stage # "none"

\* C17: in one run of multiCall the adapter requests are issued one at a
\* time in input order: a request is issued only when every earlier one has
\* been answered, so a batch has one request in flight at most, also while
\* another batch runs on the same client.
C17_SequentialWithinBatch ==
  \A t \in Tasks :
    LET f == call[t]
        issued == Len(IssuedOps(f))
        answered == Len(AdapterReplies(f))
    IN InBatch(f) =>
         /\ issued <= answered + 1
         /\ (issued = answered + 1) <=> (f.pc = "bs_await")
         /\ IssuedOps(f) = SubSeq(DueOps(f.calls), 1, issued)
         /\ f.pc = "bs_await" =>
              /\ Len(f.results) = f.i - 1
              /\ f.inflight = IssuedOps(f)[issued]

\* Two batches on the same client, each with an adapter request in flight
\* after an earlier call of it was answered.
C17_Witness ==
  /\ \A t \in Tasks : call[t].pc = "bs_await" /\ InBatch(call[t])
  /\ \E t \in Tasks : Len(AdapterReplies(call[t])) > 0

ErrNotIterable == "TypeError: not iterable"

\* C18: with useBlockstreamFallback off, Provider.multiCall invokes
\* Sandshrew first and Blockstream only after Sandshrew failed in the same
\* call; a Sandshrew result is returned without invoking Blockstream; after
\* a Sandshrew failure with a Blockstream client, the Blockstream result is
\* returned, or the Blockstream failure is thrown.
C18_PrimaryFirstThenFallback ==
  \A t \in Tasks :
    LET f == call[t]
        primaryFailed == \E err \in PrimaryErrors : PrimaryFailedWith(f, err)
    IN (f.op = "route" /\ ~useBlockstreamFallback) =>
         /\ f.log # <<>>
         /\ f.log[1] = "sandshrew.multiCall"
         /\ Invoked(f, "blockstream.multiCall") =>
              primaryFailed /\ f.log[2] = "blockstream.multiCall"
         /\ (f.pc = "done" /\ ~primaryFailed) =>
              /\ f.retKind = "value"
              /\ f.from = "sandshrew"
              /\ f.log = <<"sandshrew.multiCall">>
         /\ (f.pc = "done" /\ primaryFailed /\ blockstreamEsplora # Undefined) =>
              /\ Invoked(f, "blockstream.multiCall")
              /\ WellFormed(f.calls) => f.retKind = "value" /\ f.from = "blockstream"
              /\ ~WellFormed(f.calls) => f.retKind = "error" /\ f.error = ErrNotIterable

\* A route call under a policy that is off whose fallback to Blockstream
\* threw.
C18_Witness ==
  \E t \in Tasks :
    /\ ~useBlockstreamFallback
    /\ call[t].op = "route"
    /\ call[t].pc = "done"
    /\ call[t].log[1] = "sandshrew.multiCall"
    /\ call[t].retKind = "error"
    /\ call[t].error = ErrNotIterable

\* The backends a route call attempted, in order.
Attempts(f) ==
  SelectSeq(f.log, LAMBDA name : name \in {"blockstream.multiCall", "sandshrew.multiCall"})

\* C19: the error Provider.multiCall throws is the failure of the backend
\* it attempted last, and the failure of the backend attempted before is
\* suppressed: under the policy, with both backends failing, Sandshrew's;
\* with the policy off, with both failing, Blockstream's.
C19_LastFailureSurfaced ==
  \A t \in Tasks :
    LET f == call[t]
        attempts == Attempts(f)
    IN (f.op = "route" /\ f.pc = "done" /\ f.retKind = "error") =>
         /\ attempts # <<>>
         /\ attempts[Len(attempts)] = "sandshrew.multiCall" =>
              /\ f.error \in PrimaryErrors
              /\ PrimaryFailedWith(f, f.error)
         /\ attempts[Len(attempts)] = "blockstream.multiCall" =>
              f.error = ErrNotIterable
         /\ Len(f.suppressed) = Len(attempts) - 1
         /\ blockstreamEsplora = Undefined => attempts = <<"sandshrew.multiCall">>
         /\ (blockstreamEsplora # Undefined /\ useBlockstreamFallback) =>
              /\ attempts = <<"blockstream.multiCall", "sandshrew.multiCall">>
              /\ f.suppressed = <<ErrNotIterable>>
              /\ f.error \in PrimaryErrors
         /\ (blockstreamEsplora # Undefined /\ ~useBlockstreamFallback) =>
              /\ attempts = <<"sandshrew.multiCall", "blockstream.multiCall">>
              /\ f.suppressed[1] \in PrimaryErrors
              /\ f.error = ErrNotIterable

\* A route call under the policy in which Blockstream threw and then
\* Sandshrew failed.
C19_Witness ==
  \E t \in Tasks :
    /\ useBlockstreamFallback
    /\ call[t].op = "route"
    /\ call[t].pc = "done"
    /\ call[t].retKind = "error"
    /\ call[t].suppressed = <<ErrNotIterable>>
    /\ call[t].error = "sandshrew: HTTP 503"

\* A pushPsbt call on the Sandshrew path.
OnSandshrewPath(f) ==
  f.op = "broadcast" /\ f.log # <<>> /\ f.log[1] # "blockstream.pushTx"

\* C20: the Sandshrew path runs testMemPoolAccept, sendRawTransaction,
\* waitForTransaction, getMemPoolEntry in this order, each step only after
\* the step before answered well (allowed, for testMemPoolAccept); the
\* receipt is returned only after getMemPoolEntry answered; a step that
\* fails ends the call and no later step is invoked.
C20_PrimaryPathOrder ==
  \A t \in Tasks :
    LET f == call[t]
        n == Len(f.log)
    IN OnSandshrewPath(f) =>
         /\ n <= Len(SandshrewPushPath)
         /\ f.log = SubSeq(SandshrewPushPath, 1, n)
         /\ Len(f.replies) \in {n - 1, n}
         /\ \A k \in 1..Len(f.replies) : f.replies[k].what = SandshrewPushPath[k]
         /\ \A k \in 1..(n - 1) : f.replies[k].ok
         /\ f.retKind = "value" =>
              /\ n = Len(SandshrewPushPath)
              /\ Len(f.replies) = n
              /\ f.replies[n].ok
         /\ \A k \in 1..Len(f.replies) :
              ~f.replies[k].ok => k = n /\ f.pc = "done" /\ f.retKind = "error"

\* A pushPsbt call that stopped at a failed sendRawTransaction.
C20_Witness ==
  \E t \in Tasks, err \in RpcErrors :
    /\ OnSandshrewPath(call[t])
    /\ call[t].pc = "done"
    /\ FailedWith(call[t], "sendRawTransaction", err)
    /\ call[t].log = <<"testMemPoolAccept", "sendRawTransaction">>

====
